---- MODULE Spec2Model ----
(***************************************************************************)
(* RandomNumbersStream (src/src/utils/RandomNumbersStream.ts) and          *)
(* displayRandomNumbers (src/src/utils/displayRandomNumbers.ts).           *)
(*                                                                         *)
(* JavaScript numbers are modelled as fixed-point values: the integer n    *)
(* of the model stands for the number n / Scale, so that an integer of     *)
(* the program is a multiple of Scale and the constructor can be handed    *)
(* a fractional amount, min or max, as the type `number` allows.           *)
(***************************************************************************)
EXTENDS Integers, Sequences, FiniteSets

\* ---------------------------------------------------------------- bounds
\* Denominator of the fixed-point numbers (Scale = 2: halves).
Scale == 2
\* Largest value of min and max, in whole numbers (the smallest is 0).
MaxBound == 2
\* Largest amount, in whole numbers.
MaxAmount == 3
\* Rejected draws counted by `draws` beyond the largest amount.
MaxRejects == 2
\* Largest number of generate() calls on one instance.
MaxCalls == 2

\* The draw counter saturates here.
MaxDraws == MaxAmount + 1 + MaxRejects
\* Math.random() returns k / UDen for k in 0 .. UDen - 1; UDen is large
\* enough for every value floor(u * rangeSize) can take to be drawn.
UDen == (MaxBound + 1) * Scale

Amounts == (-1) .. (MaxAmount * Scale)
Bounds == 0 .. (MaxBound * Scale)
Params == [amount : Amounts, min : Bounds, max : Bounds, isUnique : BOOLEAN]

IsInteger(x) == x % Scale = 0
One == Scale

VARIABLES
    params,     \* the argument of the constructor / of displayRandomNumbers
    this,       \* the constructed instance: <<>> before, <<fields>> after
    pc,         \* position of the program
    mode,       \* "none", "direct" (new + generate()) or "stream" (displayRandomNumbers)
    thrown,     \* the error the constructor threw, "none" otherwise
    result,     \* generate(): const result: number[]
    used,       \* generate(): const used = new Set<number>()
    num,        \* generate(): const num of the last iteration, {} before the first
    draws,      \* number of Math.random() calls of the running generate()
    sink,       \* what the stream handed to its consumer, in order
    promise,    \* state of the promise displayRandomNumbers returned
    calls,      \* settle attempts on the promise, in order
    ncalls,     \* number of generate() calls made on the instance
    prev        \* the values the previous generate() call returned

vars == <<params, this, pc, mode, thrown, result, used, num, draws, sink, promise, calls,
          ncalls, prev>>

genVars == <<result, used, num, draws>>
streamVars == <<sink, promise, calls>>
callVars == <<ncalls, prev>>

\* ------------------------------------------------------------ constructor
\* The mutants of Validate.
ValidateAmountFirst(p) ==
    IF p.amount <= 0 THEN "InvalidAmount"
    ELSE IF p.min >= p.max THEN "InvalidRange"
    ELSE IF p.isUnique /\ p.amount > p.max - p.min + One THEN "RangeTooSmall"
    ELSE "ok"

ValidateNoRangeCheck(p) ==
    IF p.min >= p.max THEN "InvalidRange"
    ELSE IF p.amount <= 0 THEN "InvalidAmount"
    ELSE "ok"

\* constructor, lines 139-150: the three checks, in order.
Validate(p) ==
    IF p.min >= p.max THEN "InvalidRange"
    ELSE IF p.amount <= 0 THEN "InvalidAmount"
    ELSE IF p.isUnique /\ p.amount > p.max - p.min + One THEN "RangeTooSmall"
    ELSE "ok"

Constructed == this # <<>>
self == this[1]

\* new RandomNumbersStream({amount, min, max, isUnique})
Construct ==
    /\ pc = "start"
    /\ mode' = "direct"
    /\ IF Validate(params) = "ok"
         THEN /\ this' = <<params>>
              /\ pc' = "constructed"
              /\ UNCHANGED thrown
         ELSE /\ thrown' = Validate(params)
              /\ pc' = "threw"
              /\ UNCHANGED this
    /\ UNCHANGED <<params, callVars, genVars, streamVars>>

\* --------------------------------------------------------------- generate
RandomIntWide(k, mn, mx) ==
    ((k * (mx - mn + One + One)) \div (UDen * Scale)) * Scale + mn

\* Math.floor(Math.random() * (max - min + 1)) + min, with Math.random() = k / UDen.
RandomInt(k, mn, mx) ==
    ((k * (mx - mn + One)) \div (UDen * Scale)) * Scale + mn

LoopCondLe(len, amt) == len * Scale <= amt

\* while (result.length < this.amount)
LoopCond(len, amt) == len * Scale < amt

AcceptAlways(n, u, unique) == TRUE

\* if (this.isUnique) { if (!used.has(num)) ... } else ...
Accept(n, u, unique) == IF unique THEN n \notin u ELSE TRUE

PushFront(r, n) == <<n>> \o r

\* result.push(num)
Push(r, n) == Append(r, n)

Count(d) == IF d < MaxDraws THEN d + 1 ELSE d

\* generate(), lines 167-168
GenerateCall ==
    /\ pc = "constructed"
    /\ pc' = "loop"
    /\ result' = <<>>
    /\ used' = {}
    /\ num' = {}
    /\ draws' = 0
    /\ ncalls' = ncalls + 1
    /\ UNCHANGED <<params, prev, this, mode, thrown, streamVars>>

KeepResult(old) == old

\* const result: number[] = [], whatever an earlier call returned
FreshResult(old) == <<>>

KeepUsed(old) == old

\* const used = new Set<number>(), whatever an earlier call left in its set
FreshUsed(old) == {}

\* generate() called again on the instance after it returned, lines 166-168
GenerateAgain ==
    /\ pc = "returned"
    /\ ncalls < MaxCalls
    /\ pc' = "loop"
    /\ prev' = {result[i] : i \in 1 .. Len(result)}
    /\ ncalls' = ncalls + 1
    /\ result' = FreshResult(result)
    /\ used' = FreshUsed(used)
    /\ num' = {}
    /\ draws' = 0
    /\ UNCHANGED <<params, this, mode, thrown, streamVars>>

\* one iteration of the while loop, lines 170-183
LoopDraw(k) ==
    /\ pc = "loop"
    /\ LoopCond(Len(result), self.amount)
    /\ LET n == RandomInt(k, self.min, self.max) IN
        /\ num' = {n}
        /\ draws' = Count(draws)
        /\ IF Accept(n, used, self.isUnique)
             THEN /\ result' = Push(result, n)
                  /\ used' = IF self.isUnique THEN used \cup {n} ELSE used
             ELSE UNCHANGED <<result, used>>
    /\ UNCHANGED <<params, callVars, this, pc, mode, thrown, streamVars>>

\* return result, line 185
LoopExit ==
    /\ pc = "loop"
    /\ ~LoopCond(Len(result), self.amount)
    /\ pc' = IF mode = "stream" THEN "emit" ELSE "returned"
    /\ UNCHANGED <<params, callVars, this, mode, thrown, genVars, streamVars>>

\* ---------------------------------------------------------------- stream
\* What the stream hands to its consumer: a formatted number, the
\* end-of-sequence signal, the error signal.
Format(n) == [kind |-> "data", value |-> n, sep |-> "; "]
EndSignal == [kind |-> "end"]
ErrorSignal == [kind |-> "error"]

\* A promise settles once: later resolve() and reject() calls change nothing.
Settle(p, call) ==
    IF p # "pending" THEN p
    ELSE IF call = "resolve" THEN "fulfilled" ELSE "rejected"

\* stream.once("end", () => { ...; resolve(); })
EndHandler == "resolve"

ErrorHandlerResolves == "resolve"

\* stream.on("error", (err) => { ...; reject(err); })
ErrorHandler == "reject"

\* displayRandomNumbers(params): the promise is created and its executor runs:
\* the stream is constructed, piped and listened to; an exception of the
\* constructor rejects the promise.
Display ==
    /\ pc = "start"
    /\ mode' = "stream"
    /\ IF Validate(params) = "ok"
         THEN /\ this' = <<params>>
              /\ pc' = "piped"
              /\ promise' = "pending"
              /\ UNCHANGED <<thrown, calls>>
         ELSE /\ thrown' = Validate(params)
              /\ pc' = "threw"
              /\ promise' = Settle("pending", "throw")
              /\ calls' = Append(calls, "throw")
              /\ UNCHANGED this
    /\ UNCHANGED <<params, callVars, genVars, sink>>

\* The consumer asks for data: the stream computes generate() once.
StreamRead ==
    /\ pc = "piped"
    /\ pc' = "loop"
    /\ result' = <<>>
    /\ used' = {}
    /\ num' = {}
    /\ draws' = 0
    /\ ncalls' = ncalls + 1
    /\ UNCHANGED <<params, prev, this, mode, thrown, streamVars>>

EmitLast(s, r) == Append(s, Format(r[Len(r)]))

\* The next element of the generated sequence, formatted.
EmitNext(s, r) == Append(s, Format(r[Len(s) + 1]))

Emit ==
    /\ pc = "emit"
    /\ Len(sink) < Len(result)
    /\ sink' = EmitNext(sink, result)
    /\ UNCHANGED <<params, callVars, this, pc, mode, thrown, genVars, promise, calls>>

\* End of sequence: the "end" listener runs.
EmitEnd ==
    /\ pc = "emit"
    /\ Len(sink) = Len(result)
    /\ sink' = Append(sink, EndSignal)
    /\ promise' = Settle(promise, EndHandler)
    /\ calls' = Append(calls, EndHandler)
    /\ pc' = "ended"
    /\ UNCHANGED <<params, callVars, this, mode, thrown, genVars>>

\* An internal failure of the stream: the "error" listener runs and nothing
\* more is emitted.
StreamFail ==
    /\ pc \in {"piped", "emit"}
    /\ sink' = Append(sink, ErrorSignal)
    /\ promise' = Settle(promise, ErrorHandler)
    /\ calls' = Append(calls, ErrorHandler)
    /\ pc' = "errored"
    /\ UNCHANGED <<params, callVars, this, mode, thrown, genVars>>

\* ------------------------------------------------------------------- init
Init ==
    /\ params \in Params
    /\ this = <<>>
    /\ pc = "start"
    /\ mode = "none"
    /\ thrown = "none"
    /\ result = <<>>
    /\ used = {}
    /\ num = {}
    /\ draws = 0
    /\ sink = <<>>
    /\ promise = "none"
    /\ calls = <<>>
    /\ ncalls = 0
    /\ prev = {}

Next ==
    \/ Construct
    \/ GenerateCall
    \/ \E k \in 0 .. (UDen - 1) : LoopDraw(k)
    \/ LoopExit
    \/ Display
    \/ StreamRead
    \/ Emit
    \/ EmitEnd
    \/ StreamFail

Spec == Init /\ [][Next]_vars

\* The same program with generate() called repeatedly on the instance.
NextCalls == Next \/ GenerateAgain

SpecCalls == Init /\ [][NextCalls]_vars

\* The loop keeps iterating and Math.random() keeps returning every value.
LiveSpec ==
    /\ Spec
    /\ \A k \in 0 .. (UDen - 1) : WF_vars(LoopDraw(k))
    /\ WF_vars(LoopExit)
    /\ WF_vars(StreamRead)
    /\ WF_vars(Emit)
    /\ WF_vars(EmitEnd)

\* ----------------------------------------------------------------- claims
\* amount, min and max of the constructed instance are integers.
IntegerConfig ==
    IsInteger(self.amount) /\ IsInteger(self.min) /\ IsInteger(self.max)

\* generate() has returned its result.
Returned == pc \in {"returned", "emit", "ended"}

Elements(r) == {r[i] : i \in 1 .. Len(r)}
RangeSize == self.max - self.min + One

\* C1: for every configuration the constructor accepts with integer amount,
\* min and max, the sequence generate() returns has exactly `amount`
\* elements, with isUnique true or false.
C1_ExactlyAmount ==
    (Constructed /\ Returned /\ IntegerConfig) => Len(result) * Scale = self.amount

C1_Witness ==
    /\ Constructed /\ pc = "returned" /\ IntegerConfig
    /\ self.isUnique /\ Len(result) = 2 /\ draws > 2

\* C2: with isUnique the returned sequence holds no value twice; when
\* amount = max - min + 1 it is a permutation of the integers of [min, max].
C2_Unique ==
    (Constructed /\ Returned /\ self.isUnique) =>
        /\ \A i, j \in 1 .. Len(result) : i # j => result[i] # result[j]
        /\ (IntegerConfig /\ self.amount = RangeSize) =>
              Elements(result) = {v \in self.min .. self.max : IsInteger(v)}

C2_Witness ==
    /\ Constructed /\ pc = "returned" /\ self.isUnique /\ IntegerConfig
    /\ self.amount = RangeSize /\ Len(result) = 3 /\ draws > 3

C4_ValidationOrder ==
    pc # "start" =>
        /\ params.min >= params.max => thrown = "InvalidRange"
        /\ (params.min < params.max /\ params.amount <= 0) => thrown = "InvalidAmount"
        /\ ( /\ params.min < params.max /\ params.amount > 0
             /\ params.isUnique /\ params.amount > params.max - params.min + One )
              => thrown = "RangeTooSmall"
        /\ ( /\ params.min < params.max /\ params.amount > 0
             /\ (params.isUnique => params.amount <= params.max - params.min + One) )
              => (thrown = "none" /\ this = <<params>>)
        /\ thrown # "none" => ~Constructed

C4_Witness ==
    /\ pc = "threw" /\ thrown = "InvalidRange"
    /\ params.amount <= 0 /\ params.isUnique

\* C5: construction never succeeds with a non-integer amount, min or max.
C5_IntegerFields == Constructed => IntegerConfig

\* C6: once construction has succeeded generate() raises no error and, when
\* every value keeps being drawn, its loop ends and it returns.
C6_Terminates ==
    /\ (pc = "loop") ~> (pc \in {"returned", "emit"})
    /\ [](pc \in {"loop", "returned", "emit"} => (Constructed /\ thrown = "none"))

C6_Witness ==
    /\ pc = "returned" /\ self.isUnique /\ self.amount = RangeSize
    /\ draws = MaxDraws

\* The parameters satisfy the invariants of a generation request.
ValidParams ==
    /\ params.min < params.max
    /\ params.amount > 0
    /\ params.isUnique => params.amount <= params.max - params.min + One

Terminal(s) == {i \in 1 .. Len(s) : s[i].kind # "data"}

\* C7: in one production cycle the consumer is handed the elements of the
\* generated sequence once each and in generation order, then one end
\* signal after which nothing is emitted; a failure emits the error signal
\* instead, and no run holds both an end and an error signal.
C7_EmitOnceInOrder ==
    /\ [](mode = "stream" =>
            /\ Terminal(sink) \subseteq {Len(sink)}
            /\ \A i \in (1 .. Len(sink)) \ Terminal(sink) :
                  i <= Len(result) /\ sink[i] = Format(result[i])
            /\ pc = "ended" <=> (sink # <<>> /\ sink[Len(sink)] = EndSignal)
            /\ pc = "errored" <=> (sink # <<>> /\ sink[Len(sink)] = ErrorSignal)
            /\ pc = "ended" => Len(sink) = Len(result) + 1)
    /\ [][(Terminal(sink) # {}) => (sink' = sink)]_vars

C7_Witness ==
    /\ pc = "ended" /\ Len(sink) = 4
    /\ sink[1] # sink[2] /\ sink[2] # sink[3]

\* C8: the promise of displayRandomNumbers settles once: it is fulfilled
\* when the stream ends after all numbers were displayed, rejected on a
\* stream error or when the constructor throws, never fulfilled after an
\* error, and, the consumer reading on, it does not stay pending.
C8_SettlesOnce ==
    /\ [](mode = "stream" =>
            /\ Len(calls) <= 1
            /\ promise = "pending" <=> calls = <<>>
            /\ promise = "fulfilled" <=> pc = "ended"
            /\ promise = "rejected" <=> pc \in {"threw", "errored"}
            /\ pc = "threw" <=> ~ValidParams
            /\ pc = "threw" => (thrown # "none" /\ ~Constructed)
            /\ promise = "fulfilled" =>
                  /\ Len(sink) = Len(result) + 1
                  /\ IntegerConfig => Len(result) * Scale = self.amount)
    /\ [][(promise \in {"fulfilled", "rejected"}) => (promise' = promise)]_vars
    /\ (promise = "pending") ~> (promise \in {"fulfilled", "rejected"})

C8_Witness ==
    /\ promise = "fulfilled" /\ calls = <<"resolve">>
    /\ Len(sink) = 4 /\ self.amount = 3 * Scale

\* C9: with isUnique false construction succeeds whatever amount > 0 is
\* against max - min + 1, every draw is pushed at the end of the result, so
\* the i-th draw is at position i, and for an integer amount generate() has
\* consumed exactly `amount` draws when it returns.
C9_NonUnique ==
    /\ []((pc # "start" /\ ~params.isUnique /\ params.min < params.max
             /\ params.amount > 0) => Constructed)
    /\ []((Constructed /\ ~self.isUnique) =>
            /\ draws = Len(result)
            /\ Len(result) > 0 => num = {result[Len(result)]}
            /\ (Returned /\ IntegerConfig) => draws * Scale = self.amount)
    /\ [][(Constructed /\ ~self.isUnique /\ pc = "loop" /\ pc' = "loop") =>
            (draws' = draws + 1 /\ \E n \in num' : result' = Append(result, n))]_vars

C9_Witness ==
    /\ pc = "returned" /\ ~self.isUnique /\ IntegerConfig
    /\ self.amount > RangeSize /\ draws = 3
    /\ result[1] = result[3] /\ result[1] # result[2]

\* C10: with isUnique and max - min + 1 <= amount * 2, generate() shuffles
\* the list of [min, max] and takes its first `amount` elements: it rejects
\* no draw and uses at most max - min draws.
C10_DenseShuffles ==
    (Constructed /\ IntegerConfig /\ self.isUnique /\ RangeSize <= self.amount * 2) =>
        /\ draws = Len(result)
        /\ draws * Scale <= RangeSize - One

\* A sequence generate() may return for an integer configuration: `amount`
\* integers of [min, max], pairwise distinct when isUnique.
WellShaped(r) ==
    /\ Len(r) * Scale = self.amount
    /\ \A i \in 1 .. Len(r) :
          self.min <= r[i] /\ r[i] <= self.max /\ IsInteger(r[i])
    /\ self.isUnique => \A i, j \in 1 .. Len(r) : i # j => r[i] # r[j]

\* C11: generate() keeps no state between calls and leaves the
\* configuration as constructed: amount, min, max and isUnique never change
\* after construction, every call starts from an empty result and an empty
\* used-set and with no draw made, which never hold more than the call's own
\* values, each call's result has on its own `amount` elements of [min, max],
\* distinct when isUnique, and construction makes no draw.
C11_NoStateBetweenCalls ==
    /\ [](Constructed => this = <<params>>)
    /\ [][Constructed => this' = this]_vars
    /\ [][(pc # "loop" /\ pc' = "loop") =>
            (result' = <<>> /\ used' = {} /\ draws' = 0 /\ ncalls' = ncalls + 1)]_vars
    /\ [](pc \in {"start", "constructed", "piped", "threw"} =>
            (ncalls = 0 /\ draws = 0 /\ num = {} /\ result = <<>> /\ used = {}))
    /\ [](Constructed =>
            /\ used = (IF self.isUnique THEN Elements(result) ELSE {})
            /\ Len(result) <= draws
            /\ (Returned /\ IntegerConfig) => WellShaped(result)
            /\ ncalls <= 1 => prev = {})

C11_Witness ==
    /\ pc = "returned" /\ ncalls = MaxCalls /\ MaxCalls > 1
    /\ self.isUnique /\ IntegerConfig /\ Len(result) = 2
    /\ prev # Elements(result) /\ prev \cap Elements(result) # {}
    /\ this = <<params>>
====
